---- MODULE Spec2Model ----
(***************************************************************************)
(* Sweet-shop backend: the catalog handlers of backend/routes/sweets.py,   *)
(* the register / login handlers of backend/routes/auth.py and the token   *)
(* check of backend/utils/auth.py, over the primary store (MongoDB) and    *)
(* the in-process fallback lists.                                          *)
(*                                                                         *)
(* Every store call of a handler may raise (the primary store is           *)
(* unreachable for that call); the handler's bare `except:` then takes the *)
(* fallback path.  Each such call draws its own "up" flag.                 *)
(***************************************************************************)
EXTENDS Integers, Sequences, FiniteSets, TLC

\* ------------------------------------------------------------------ bounds
MaxOid == 1
MaxFake == 2
MaxQty == 1
MaxProcs == 2
MaxUsers == 2
MaxTicks == 2
MaxPair == 2

\* ------------------------------------------------------- program constants
SECRET_KEY == "super-secret-key"
ALGORITHM == "HS256"
ACCESS_TOKEN_EXPIRE_MINUTES == 1440
ADMIN_KEY == "admin123"

VARIABLES
    sweets,        \* db.sweets: ObjectId string -> document
    nextOid,       \* number of ObjectIds the primary store has generated
    fake_sweets,   \* _fake_sweets: list of dicts, each with "id"
    req,           \* purchase requests suspended at a store call
    deleted,       \* history: the ids whose Delete was answered with success
    twin,          \* in a paired run: primary id -> fallback id of the same Add
    users,         \* db.users: list of documents in insertion order
    fake_users,    \* _fake_users
    held,          \* the bearer token the client retains from its last login
    now,           \* clock, in minutes
    ticks,         \* number of clock advances so far
    first_role,    \* history: email -> role its first successful Register asked for
    last           \* the last request and its response

vars == <<sweets, nextOid, fake_sweets, req, deleted, twin, users, fake_users,
          held, now, ticks, first_role, last>>

catalogVars == <<sweets, nextOid, fake_sweets, req, deleted, twin>>
authVars == <<users, fake_users, held, now, ticks, first_role>>

\* ------------------------------------------------------------ identifiers
\* A string id is one of: a 24-hex-digit string (what str(ObjectId) gives),
\* a decimal string (what str(len(_fake_sweets) + 1) gives), anything else.
HexId(n) == [k |-> "hex", n |-> n]
DecId(n) == [k |-> "dec", n |-> n]
BadId == [k |-> "bad", n |-> 0]

\* ObjectId.is_valid(sweet_id)
ObjectIdIsValid(sweet_id) == sweet_id.k = "hex"

SweetIds ==
    {HexId(n) : n \in 1..MaxOid} \cup {DecId(n) : n \in 1..MaxFake} \cup {BadId}

\* ------------------------------------------------------------ Sweet model
Names == {"Ladoo", "Barfi"}
Categories == {"Indian"}
Prices == {50}
Quantities == -1..MaxQty
Amounts == {-1, 0, 1, 2}

Sweet == [name : Names, category : Categories, price : Prices, quantity : Quantities]

\* ----------------------------------------------------------- token service
NoToken == [payload |-> [exp |-> 0], sig |-> <<"", [exp |-> 0]>>]

\* jwt.encode(claims, key, algorithm): the claims and an HMAC over them
jwt_encode(claims, key) == [payload |-> claims, sig |-> <<key, claims>>]

\* jwt.decode(token, key, algorithms): signature, then "exp" against the clock
jwt_decode_ok(token, key, t) ==
    /\ token.sig = <<key, token.payload>>
    /\ "exp" \in DOMAIN token.payload => token.payload.exp >= t

\* utils.auth.get_current_user(authorization)
get_current_user(authorization, t) ==
    IF authorization.scheme = "none"
    THEN [ok |-> FALSE, status |-> 401, detail |-> "No token provided", payload |-> [exp |-> 0]]
    ELSE IF authorization.scheme # "Bearer"
    THEN [ok |-> FALSE, status |-> 401, detail |-> "Invalid token", payload |-> [exp |-> 0]]
    ELSE IF ~jwt_decode_ok(authorization.token, SECRET_KEY, t)
    THEN [ok |-> FALSE, status |-> 401, detail |-> "Invalid token", payload |-> [exp |-> 0]]
    ELSE [ok |-> TRUE, status |-> 200, detail |-> "", payload |-> authorization.token.payload]

\* routes.auth.get_current_user(token): as above, and payload.get("sub") must
\* not be None.  No route depends on it.
oauth2_get_current_user(token, t) ==
    IF ~jwt_decode_ok(token, SECRET_KEY, t)
    THEN [ok |-> FALSE, status |-> 401, detail |-> "Invalid token"]
    ELSE IF "sub" \notin DOMAIN token.payload
    THEN [ok |-> FALSE, status |-> 401, detail |-> "Invalid token"]
    ELSE [ok |-> TRUE, status |-> 200, detail |-> ""]

\* current_user.get("role")
RoleOf(payload) == IF "role" \in DOMAIN payload THEN payload.role ELSE "None"

Bearer(token) == [scheme |-> "Bearer", token |-> token]


\* A correctly signed, unexpired token that carries a role but no subject.
NoSubjectHeader ==
    Bearer(jwt_encode([role |-> "admin", exp |-> ACCESS_TOKEN_EXPIRE_MINUTES], SECRET_KEY))

\* Authorization headers whose token is signed with the key and unexpired at
\* time 0: an admin, a plain user, a token that carries no role claim, and a
\* token that carries no subject claim.
AuthedHeaders ==
    { Bearer(jwt_encode([sub |-> "a@x", role |-> "admin", exp |-> ACCESS_TOKEN_EXPIRE_MINUTES], SECRET_KEY)),
      Bearer(jwt_encode([sub |-> "b@x", role |-> "user", exp |-> ACCESS_TOKEN_EXPIRE_MINUTES], SECRET_KEY)),
      Bearer(jwt_encode([sub |-> "b@x", exp |-> ACCESS_TOKEN_EXPIRE_MINUTES], SECRET_KEY)),
      NoSubjectHeader }

\* Headers that do not: none at all, a forged signature, an expired token.
BadHeaders ==
    { [scheme |-> "none", token |-> NoToken],
      Bearer(jwt_encode([sub |-> "a@x", role |-> "admin", exp |-> ACCESS_TOKEN_EXPIRE_MINUTES], "forged")),
      Bearer(jwt_encode([sub |-> "a@x", role |-> "admin", exp |-> -1], SECRET_KEY)) }

\* ------------------------------------------------------------- responses
Response(op, status, detail) == [op |-> op, status |-> status, detail |-> detail]

NoResponse == Response("none", 0, "")

\* What a catalog handler leaves behind when it returns or raises: the HTTP
\* status and message, the id in the body (BadId when the body has none), and
\* the two stores.  Same(...) is an outcome that touches neither store.
Same(status, detail) ==
    [status |-> status, detail |-> detail, id |-> BadId,
     sweets |-> sweets, nextOid |-> nextOid, fake_sweets |-> fake_sweets]

\* Depends(get_current_user): the claims the handler body gets as current_user
Users(headers) ==
    {get_current_user(a, now).payload : a \in {h \in headers : get_current_user(h, now).ok}}

\* ------------------------------------------------------- list operations
\* next((x for x in seq if ...), None), as a position: the first of the
\* positions that pass the test; 0 stands for None
First(hits) ==
    IF hits = {} THEN 0 ELSE CHOOSE i \in hits : \A j \in hits : i <= j

\* next((s for s in _fake_sweets if s.get("id") == sweet_id), None)
FakeIndex(sweet_id) ==
    First({i \in DOMAIN fake_sweets : fake_sweets[i].id = sweet_id})

\* target.update(update_data.model_dump()): every field replaced, "id" kept
WithData(id, data) ==
    [id |-> id, name |-> data.name, category |-> data.category,
     price |-> data.price, quantity |-> data.quantity]

\* ------------------------------------------------------------ add_sweet
add_sweet(current_user, sweet, up1, up2) ==
    LET existing ==
            IF up1 THEN \E o \in DOMAIN sweets : sweets[o].name = sweet.name
            ELSE \E i \in DOMAIN fake_sweets : fake_sweets[i].name = sweet.name
        oid == HexId(nextOid + 1)
        fid == DecId(Len(fake_sweets) + 1)
    IN  IF existing
        THEN Same(400, "Sweet already exists")
        ELSE IF up2
        THEN [Same(201, "") EXCEPT !.id = oid,
                                   !.sweets = (oid :> sweet) @@ sweets,
                                   !.nextOid = nextOid + 1]
        ELSE [Same(201, "") EXCEPT !.id = fid,
                                   !.fake_sweets = Append(fake_sweets, WithData(fid, sweet))]

\* --------------------------------------------------------- update_sweet
\* update_one({"_id": ...}, {"$set": data}).modified_count
ModifiedCount(sweet_id, data) ==
    IF sweet_id \in DOMAIN sweets /\ sweets[sweet_id] # data THEN 1 ELSE 0

update_fallback(sweet_id, update_data) ==
    LET i == FakeIndex(sweet_id) IN
    IF i = 0
    THEN Same(404, "Sweet not found")
    ELSE [Same(200, "Updated successfully") EXCEPT
             !.fake_sweets = [fake_sweets EXCEPT ![i] = WithData(@.id, update_data)]]

update_sweet(current_user, sweet_id, update_data, up) ==
    IF ObjectIdIsValid(sweet_id) /\ up
    THEN IF ModifiedCount(sweet_id, update_data) = 0
         THEN Same(404, "Sweet not found")
         ELSE [Same(200, "Updated successfully") EXCEPT
                  !.sweets = [sweets EXCEPT ![sweet_id] = update_data]]
    ELSE update_fallback(sweet_id, update_data)

\* --------------------------------------------------------- delete_sweet
\* A role check that refuses only the role "user".
NotAdminUserOnly(current_user) == RoleOf(current_user) = "user"

\* current_user.get("role") != "admin"
NotAdmin(current_user) == RoleOf(current_user) # "admin"

delete_fallback(sweet_id) ==
    LET Keep(s) == s.id # sweet_id
        kept == SelectSeq(fake_sweets, Keep)
    IN  IF Len(kept) = Len(fake_sweets)
        THEN Same(404, "Sweet not found")
        ELSE [Same(200, "Deleted successfully") EXCEPT !.fake_sweets = kept]

delete_sweet(current_user, sweet_id, up) ==
    IF NotAdmin(current_user)
    THEN Same(403, "Only admins can delete sweets")
    ELSE IF ObjectIdIsValid(sweet_id) /\ up
    THEN IF sweet_id \notin DOMAIN sweets
         THEN Same(404, "Sweet not found")
         ELSE [Same(200, "Deleted successfully") EXCEPT
                  !.sweets = [o \in DOMAIN sweets \ {sweet_id} |-> sweets[o]]]
    ELSE delete_fallback(sweet_id)

\* ------------------------------------------------------- purchase_sweet
\* sweet["quantity"] <= 0
OutOfStock(quantity) == quantity <= 0

\* {"$inc": {"quantity": delta}} on the document with this _id, if there is one
Inc(sweet_id, delta) ==
    [o \in DOMAIN sweets |->
        IF o = sweet_id THEN [sweets[o] EXCEPT !.quantity = @ + delta] ELSE sweets[o]]

purchase_fallback(sweet_id) ==
    LET i == FakeIndex(sweet_id) IN
    IF i = 0
    THEN Same(404, "Sweet not found")
    ELSE IF OutOfStock(fake_sweets[i].quantity)
    THEN Same(400, "Out of stock")
    ELSE [Same(200, "Purchased successfully") EXCEPT
             !.fake_sweets = [fake_sweets EXCEPT ![i].quantity = @ - 1]]

\* The handler up to the result of `await sweets.find_one(...)`: it has
\* answered, or (status 0) it goes on to `await sweets.update_one(...)`.
purchase_find(sweet_id, up1) ==
    IF ObjectIdIsValid(sweet_id) /\ up1
    THEN IF sweet_id \notin DOMAIN sweets
         THEN Same(404, "Sweet not found")
         ELSE IF OutOfStock(sweets[sweet_id].quantity)
         THEN Same(400, "Out of stock")
         ELSE Same(0, "await update_one")
    ELSE purchase_fallback(sweet_id)

\* The handler from its update_one to its return.
purchase_update(sweet_id, up2) ==
    IF up2
    THEN [Same(200, "Purchased successfully") EXCEPT !.sweets = Inc(sweet_id, -1)]
    ELSE purchase_fallback(sweet_id)

\* The handler run from its first line to its return, with no other request
\* between its two store calls.
purchase_sweet(current_user, sweet_id, up1, up2) ==
    IF purchase_find(sweet_id, up1).status = 0
    THEN purchase_update(sweet_id, up2)
    ELSE purchase_find(sweet_id, up1)

\* -------------------------------------------------------- restock_sweet
\* An amount check that lets 0 through.
InvalidAmountNegativeOnly(quantity) == quantity < 0

\* quantity <= 0
InvalidAmount(quantity) == quantity <= 0

restock_fallback(sweet_id, quantity) ==
    LET i == FakeIndex(sweet_id) IN
    IF i = 0
    THEN Same(404, "Sweet not found")
    ELSE [Same(200, "Restocked units successfully") EXCEPT
             !.fake_sweets = [fake_sweets EXCEPT ![i].quantity = @ + quantity]]

restock_sweet(current_user, sweet_id, quantity, up) ==
    IF NotAdmin(current_user)
    THEN Same(403, "Only admins can restock sweets")
    ELSE IF InvalidAmount(quantity)
    THEN Same(400, "Quantity must be positive")
    ELSE IF ObjectIdIsValid(sweet_id) /\ up
    THEN [Same(200, "Restocked units successfully") EXCEPT !.sweets = Inc(sweet_id, quantity)]
    ELSE restock_fallback(sweet_id, quantity)

\* ---------------------------------------------- list_sweets, search_sweets
\* An optional query parameter: None, or a value.
None == [some |-> FALSE, v |-> 0]
Some(v) == [some |-> TRUE, v |-> v]

\* Python truthiness of an optional number: `if min_price:`
Truthy(x) == x.some /\ x.v # 0

\* name.lower() and sweet["name"].lower(), on the strings of the model
Lower(str) ==
    CASE str = "Ladoo" -> "ladoo"
      [] str = "Barfi" -> "barfi"
      [] str = "LAD" -> "lad"
      [] OTHER -> str

\* a in b, on lower-case strings of the model
IsIn(a, b) == a = b \/ <<a, b>> \in {<<"lad", "ladoo">>, <<"bar", "barfi">>}

\* The documents of the primary store as the routes return them, with "id".
PrimaryDocs == {WithData(o, sweets[o]) : o \in DOMAIN sweets}

\* list(_fake_sweets), as a set
FakeDocs == {fake_sweets[i] : i \in DOMAIN fake_sweets}

list_sweets(up) == IF up THEN PrimaryDocs ELSE FakeDocs

\* sweets.find(query): "name" by case-insensitive regex, "category" by
\* equality, "price" by the $gte / $lte the query was given
QueryMatches(d, name, category, min_price, max_price) ==
    /\ (name # "") => IsIn(Lower(name), Lower(d.name))
    /\ (category # "") => d.category = category
    /\ (Truthy(min_price) \/ Truthy(max_price)) =>
           /\ Truthy(min_price) => d.price >= min_price.v
           /\ Truthy(max_price) => d.price <= max_price.v

\* The loop over _fake_sweets: name_match, cat_match, price_ok
FallbackMatches(d, name, category, min_price, max_price) ==
    /\ (name # "") => IsIn(Lower(name), Lower(d.name))
    /\ (category # "") => d.category = category
    /\ min_price.some => d.price >= min_price.v
    /\ max_price.some => d.price <= max_price.v

\* An absent name or category is the empty string here: `if name:` treats
\* None and "" alike.
search_sweets(name, category, min_price, max_price, up) ==
    IF up
    THEN {d \in PrimaryDocs : QueryMatches(d, name, category, min_price, max_price)}
    ELSE {d \in FakeDocs : FallbackMatches(d, name, category, min_price, max_price)}

\* ---------------------------------------------------------------- catalog
Idle == [pc |-> "idle", id |-> BadId]

Init ==
    /\ sweets = <<>>
    /\ nextOid = 0
    /\ fake_sweets = <<>>
    /\ req = [p \in 1..MaxProcs |-> Idle]
    /\ deleted = {}
    /\ twin = <<>>
    /\ users = <<>>
    /\ fake_users = <<>>
    /\ held = NoToken
    /\ now = 0
    /\ ticks = 0
    /\ first_role = <<>>
    /\ last = NoResponse

\* The model's bounds on what a handler may leave behind.
Bounded(r) ==
    /\ r.nextOid <= MaxOid
    /\ Len(r.fake_sweets) <= MaxFake
    /\ \A o \in DOMAIN r.sweets : r.sweets[o].quantity <= MaxQty
    /\ \A i \in DOMAIN r.fake_sweets : r.fake_sweets[i].quantity <= MaxQty

\* The handler's outcome r takes effect and is answered.
Commit(op, r) ==
    /\ Bounded(r)
    /\ sweets' = r.sweets
    /\ nextOid' = r.nextOid
    /\ fake_sweets' = r.fake_sweets
    /\ last' = Response(op, r.status, r.detail)
    /\ UNCHANGED authVars

CatalogOps == {"add", "update", "delete", "purchase", "restock"}

\* A request to a catalog route whose Authorization header does not validate:
\* the dependency raises 401 and the handler body never runs.
Unauthenticated ==
    \E op \in CatalogOps, a \in BadHeaders :
        /\ ~get_current_user(a, now).ok
        /\ last' = Response(op, get_current_user(a, now).status, get_current_user(a, now).detail)
        /\ UNCHANGED <<catalogVars, authVars>>

Add ==
    \E u \in Users(AuthedHeaders), s \in Sweet, up1, up2 \in BOOLEAN :
        Commit("add", add_sweet(u, s, up1, up2)) /\ UNCHANGED <<req, deleted, twin>>

Update ==
    \E u \in Users(AuthedHeaders), id \in SweetIds, s \in Sweet, up \in BOOLEAN :
        Commit("update", update_sweet(u, id, s, up)) /\ UNCHANGED <<req, deleted, twin>>

Delete ==
    \E u \in Users(AuthedHeaders), id \in SweetIds, up \in BOOLEAN :
        Commit("delete", delete_sweet(u, id, up)) /\ UNCHANGED <<req, deleted, twin>>

Purchase ==
    \E u \in Users(AuthedHeaders), id \in SweetIds, up1, up2 \in BOOLEAN :
        Commit("purchase", purchase_sweet(u, id, up1, up2)) /\ UNCHANGED <<req, deleted, twin>>

Restock ==
    \E u \in Users(AuthedHeaders), id \in SweetIds, q \in Amounts, up \in BOOLEAN :
        Commit("restock", restock_sweet(u, id, q, up)) /\ UNCHANGED <<req, deleted, twin>>

\* The values a search is asked with.
SearchNames == {"", "LAD"}
SearchCategories == {"", "Indian"}
MinPrices == {None, Some(0), Some(51)}
MaxPrices == {None, Some(0), Some(50)}

\* What a reading route answers: 200 and a list, of which the response record
\* keeps the length.
Listing(op, docs) ==
    [op |-> op, status |-> 200, detail |-> "", n |-> Cardinality(docs)]

\* GET /api/sweets/: reads, and changes no store.
List ==
    \E u \in Users(AuthedHeaders), up \in BOOLEAN :
        /\ last' = Listing("list", list_sweets(up))
        /\ UNCHANGED <<catalogVars, authVars>>

\* GET /api/sweets/search: reads, and changes no store.
Search ==
    \E u \in Users(AuthedHeaders),
       name \in SearchNames, category \in SearchCategories,
       min_price \in MinPrices, max_price \in MaxPrices, up \in BOOLEAN :
        /\ last' = Listing("search", search_sweets(name, category, min_price, max_price, up))
        /\ UNCHANGED <<catalogVars, authVars>>

Next ==
    \/ Unauthenticated \/ Add \/ List \/ Search
    \/ Update \/ Delete \/ Purchase \/ Restock

Spec == Init /\ [][Next]_vars

\* ------------------------------------------ catalog, with deletion history
\* Delete, with the id of a successful Delete added to the history.
DeleteRecorded ==
    \E u \in Users(AuthedHeaders), id \in SweetIds, up \in BOOLEAN :
        /\ Commit("delete", delete_sweet(u, id, up))
        /\ deleted' = IF delete_sweet(u, id, up).status = 200
                       THEN deleted \cup {id} ELSE deleted
        /\ UNCHANGED <<req, twin>>

LifeNext == Add \/ Update \/ DeleteRecorded \/ Purchase

LifeSpec == Init /\ [][LifeNext]_vars

\* ------------------------------------------------- catalog, paired runs
\* Two runs of the catalog side by side, given the same calls: one with the
\* primary store reachable at every call, whose records are in sweets, and one
\* with it unreachable at every call, whose records are in fake_sweets.  The
\* first run is addressed by ObjectIds only, so it never reads fake_sweets.
\* A call addresses the product of an earlier Add, an id no Add has handed
\* out, or a malformed id.
Targets == DOMAIN twin \cup {HexId(0), BadId}

\* The id that addresses, in the second run, what t addresses in the first.
Twin(t) ==
    IF t \in DOMAIN twin THEN twin[t]
    ELSE IF t = BadId THEN BadId ELSE DecId(0)

\* Both runs answer; the response kept is the first run's.
Both(op, rU, rD) ==
    /\ rU.nextOid <= MaxPair
    /\ Len(rD.fake_sweets) <= MaxPair
    /\ \A o \in DOMAIN rU.sweets : rU.sweets[o].quantity <= MaxQty
    /\ \A i \in DOMAIN rD.fake_sweets : rD.fake_sweets[i].quantity <= MaxQty
    /\ sweets' = rU.sweets
    /\ nextOid' = rU.nextOid
    /\ fake_sweets' = rD.fake_sweets
    /\ last' = Response(op, rU.status, rU.detail)
    /\ UNCHANGED <<req, deleted, authVars>>

PairAdd ==
    \E u \in Users(AuthedHeaders), s \in Sweet :
        LET rU == add_sweet(u, s, TRUE, TRUE)
            rD == add_sweet(u, s, FALSE, FALSE)
        IN  /\ Both("add", rU, rD)
            /\ twin' = IF rU.status = 201 /\ rD.status = 201
                        THEN (rU.id :> rD.id) @@ twin ELSE twin

PairUpdate ==
    \E u \in Users(AuthedHeaders), t \in Targets, s \in Sweet :
        /\ Both("update", update_sweet(u, t, s, TRUE), update_sweet(u, Twin(t), s, FALSE))
        /\ UNCHANGED twin

PairDelete ==
    \E u \in Users(AuthedHeaders), t \in Targets :
        /\ Both("delete", delete_sweet(u, t, TRUE), delete_sweet(u, Twin(t), FALSE))
        /\ UNCHANGED twin

PairPurchase ==
    \E u \in Users(AuthedHeaders), t \in Targets :
        /\ Both("purchase", purchase_sweet(u, t, TRUE, TRUE),
                            purchase_sweet(u, Twin(t), FALSE, FALSE))
        /\ UNCHANGED twin

PairRestock ==
    \E u \in Users(AuthedHeaders), t \in Targets, q \in Amounts :
        /\ Both("restock", restock_sweet(u, t, q, TRUE), restock_sweet(u, Twin(t), q, FALSE))
        /\ UNCHANGED twin

PairList ==
    \E u \in Users(AuthedHeaders) :
        /\ last' = Listing("list", list_sweets(TRUE))
        /\ UNCHANGED <<catalogVars, authVars>>

PairSearch ==
    \E u \in Users(AuthedHeaders),
       name \in SearchNames, category \in SearchCategories,
       min_price \in MinPrices, max_price \in MaxPrices :
        /\ last' = Listing("search", search_sweets(name, category, min_price, max_price, TRUE))
        /\ UNCHANGED <<catalogVars, authVars>>

PairNext ==
    \/ PairAdd \/ PairList \/ PairSearch
    \/ PairUpdate \/ PairDelete \/ PairPurchase \/ PairRestock

PairSpec == Init /\ [][PairNext]_vars

\* ------------------------------------------- catalog, concurrent purchases
\* The event loop runs request p up to its first await result: p answers, or
\* is suspended at update_one.
PurchaseFind ==
    \E p \in 1..MaxProcs, u \in Users(AuthedHeaders), id \in SweetIds, up1 \in BOOLEAN :
        /\ req[p].pc = "idle"
        /\ IF purchase_find(id, up1).status = 0
           THEN /\ req' = [req EXCEPT ![p] = [pc |-> "update", id |-> id]]
                /\ UNCHANGED <<sweets, nextOid, fake_sweets, deleted, twin, authVars, last>>
           ELSE /\ Commit("purchase", purchase_find(id, up1))
                /\ UNCHANGED <<req, deleted, twin>>

\* The event loop resumes request p: its update_one runs (or raises) and the
\* handler returns.
PurchaseUpdate ==
    \E p \in 1..MaxProcs, up2 \in BOOLEAN :
        /\ req[p].pc = "update"
        /\ req' = [req EXCEPT ![p] = Idle]
        /\ Commit("purchase", purchase_update(req[p].id, up2))
        /\ UNCHANGED <<deleted, twin>>

ConcNext == Add \/ PurchaseFind \/ PurchaseUpdate

ConcSpec == Init /\ [][ConcNext]_vars

\* ------------------------------------------------------------ AuthRequest
Emails == {"a@x", "b@x"}
Passwords == {"p", "q"}
AdminKeys == {ADMIN_KEY, "guess", "None"}
Salts == {"s1"}

AuthRequest == [email : Emails, password : Passwords, admin_key : AdminKeys]

\* pwd_context.hash(password): the scheme, a random salt, the salted digest
pwd_hash(password, salt) ==
    [scheme |-> "pbkdf2_sha256", salt |-> salt, checksum |-> <<salt, password>>]

\* pwd_context.verify(password, hashed): the digest recomputed with the salt
pwd_verify(password, hashed) == hashed.checksum = <<hashed.salt, password>>

\* f"user_{n}"
UserId(n) == [k |-> "user", n |-> n]

\* What register / login leave behind: status, message, the body's fields
\* ("None" for a field the body lacks), the token, and the two stores.
AuthSame(status, detail) ==
    [status |-> status, detail |-> detail, email |-> "None", id |-> "None",
     role |-> "None", token |-> NoToken, users |-> users, fake_users |-> fake_users]

\* next((u for u in docs if u["email"] == email), None), as a position
UserIndex(docs, email) ==
    First({i \in DOMAIN docs : docs[i].email = email})

\* ---------------------------------------------------------------- register
\* role = "admin" if user_data.admin_key == ADMIN_KEY else "user"
RoleFor(admin_key) == IF admin_key = ADMIN_KEY THEN "admin" ELSE "user"

\* users.insert_one(new_user) gets through: the store is reachable and holds
\* no document with this _id (otherwise DuplicateKeyError)
InsertSucceeds(new_user, up) ==
    up /\ \A i \in DOMAIN users : users[i]._id # new_user._id

register(user_data, salt, up1, up2) ==
    LET docs == IF up1 THEN users ELSE fake_users
        i == UserIndex(docs, user_data.email)
        role == RoleFor(user_data.admin_key)
        new_user == [email |-> user_data.email,
                     hashed_password |-> pwd_hash(user_data.password, salt),
                     role |-> role,
                     _id |-> UserId(Len(fake_users))]
    IN  IF i # 0
        THEN [AuthSame(200, "") EXCEPT !.email = docs[i].email, !.id = docs[i]._id]
        ELSE IF InsertSucceeds(new_user, up2)
        THEN [AuthSame(200, "") EXCEPT !.email = user_data.email, !.id = new_user._id,
                                       !.role = role, !.users = Append(users, new_user)]
        ELSE [AuthSame(200, "") EXCEPT !.email = user_data.email, !.id = new_user._id,
                                       !.role = role,
                                       !.fake_users = Append(fake_users, new_user)]

\* ------------------------------------------------------------------- login
\* An expiration an hour after issuance.
token_expiration_hour(t) == t + 60

\* datetime.now(timezone.utc) + timedelta(minutes=ACCESS_TOKEN_EXPIRE_MINUTES)
token_expiration(t) == t + ACCESS_TOKEN_EXPIRE_MINUTES

\* The claims login signs for the document it found.
TokenClaims(user, t) ==
    [sub |-> user.email, role |-> user.role, exp |-> token_expiration(t)]

\* A wrong-password answer with a message of its own.
WrongPasswordTold == AuthSame(401, "Wrong password")

\* raise HTTPException(401, "Wrong email or password") for a wrong password
WrongPassword == AuthSame(401, "Wrong email or password")

login(user_data, up) ==
    LET docs == IF up THEN users ELSE fake_users
        i == UserIndex(docs, user_data.email)
    IN  IF i = 0
        THEN AuthSame(401, "Wrong email or password")
        ELSE IF ~pwd_verify(user_data.password, docs[i].hashed_password)
        THEN WrongPassword
        ELSE [AuthSame(200, "") EXCEPT
                 !.email = docs[i].email, !.role = docs[i].role,
                 !.token = jwt_encode(TokenClaims(docs[i], now), SECRET_KEY)]

\* ------------------------------------------------------------------- auth
AuthResponse(op, email, r) ==
    [op |-> op, status |-> r.status, detail |-> r.detail, email |-> email]

Register ==
    \E d \in AuthRequest, salt \in Salts, up1, up2 \in BOOLEAN :
        LET r == register(d, salt, up1, up2) IN
        /\ Len(r.users) + Len(r.fake_users) <= MaxUsers
        /\ users' = r.users
        /\ fake_users' = r.fake_users
        /\ first_role' = IF d.email \in DOMAIN first_role THEN first_role
                          ELSE (d.email :> RoleFor(d.admin_key)) @@ first_role
        /\ last' = AuthResponse("register", d.email, r)
        /\ UNCHANGED <<catalogVars, held, now, ticks>>

\* The client keeps the token of a successful login.
Login ==
    \E d \in AuthRequest, up \in BOOLEAN :
        LET r == login(d, up) IN
        /\ held' = IF r.status = 200 THEN r.token ELSE held
        /\ last' = AuthResponse("login", d.email, r)
        /\ UNCHANGED <<catalogVars, users, fake_users, now, ticks, first_role>>

\* A request to a catalog route with the held token: Depends(get_current_user).
Validate ==
    LET u == get_current_user(Bearer(held), now) IN
    /\ held # NoToken
    /\ last' = [op |-> "validate", status |-> u.status, detail |-> u.detail,
                email |-> "None"]
    /\ UNCHANGED <<catalogVars, authVars>>

\* The clock advances: by a minute, or by a day.
Tick ==
    \E d \in {1, ACCESS_TOKEN_EXPIRE_MINUTES} :
        /\ ticks < MaxTicks
        /\ now' = now + d
        /\ ticks' = ticks + 1
        /\ UNCHANGED <<catalogVars, users, fake_users, held, first_role, last>>

AuthNext == Register \/ Login \/ Validate \/ Tick

AuthSpec == Init /\ [][AuthNext]_vars

\* ------------------------------------------------------ catalog: claims
AnyUser == Users(AuthedHeaders)
Admins == {u \in AnyUser : RoleOf(u) = "admin"}
NonAdmins == {u \in AnyUser : RoleOf(u) # "admin"}

\* The positions of _fake_sweets that hold a product with this id.
FakeAt(sweet_id) == {i \in DOMAIN fake_sweets : fake_sweets[i].id = sweet_id}

NoProduct(sweet_id) == sweet_id \notin DOMAIN sweets /\ FakeAt(sweet_id) = {}

\* The quantities of the live products with this id.
QuantitiesAt(sweet_id) ==
    {sweets[o].quantity : o \in DOMAIN sweets \cap {sweet_id}}
        \cup {fake_sweets[i].quantity : i \in FakeAt(sweet_id)}

\* A request on this id is served by the store that holds the product: a
\* decimal id always goes to the fallback list, an ObjectId string goes to the
\* primary store when the handler's store calls get through.
Served(sweet_id, up1, up2) == ObjectIdIsValid(sweet_id) => (up1 /\ up2)

\* The outcome r leaves both stores as they are.
Untouched(r) ==
    r.sweets = sweets /\ r.fake_sweets = fake_sweets /\ r.nextOid = nextOid

\* The outcome r has changed the quantity of every product with this id by
\* delta, and nothing else.
QuantityMoved(r, sweet_id, delta) ==
    /\ r.nextOid = nextOid
    /\ r.sweets = Inc(sweet_id, delta)
    /\ r.fake_sweets =
           [i \in DOMAIN fake_sweets |->
               IF fake_sweets[i].id = sweet_id
               THEN [fake_sweets[i] EXCEPT !.quantity = @ + delta]
               ELSE fake_sweets[i]]

\* The outcome r takes no product's quantity from >= 0 to < 0, nor lowers any.
NotBelowZero(r) ==
    /\ \A o \in DOMAIN sweets \cap DOMAIN r.sweets :
           sweets[o].quantity >= 0 => r.sweets[o].quantity >= 0
    /\ Len(r.fake_sweets) = Len(fake_sweets)
    /\ \A i \in DOMAIN fake_sweets :
           fake_sweets[i].quantity >= 0 => r.fake_sweets[i].quantity >= 0

NotLowered(r) ==
    /\ DOMAIN r.sweets = DOMAIN sweets
    /\ \A o \in DOMAIN sweets : r.sweets[o].quantity >= sweets[o].quantity
    /\ Len(r.fake_sweets) = Len(fake_sweets)
    /\ \A i \in DOMAIN fake_sweets :
           r.fake_sweets[i].quantity >= fake_sweets[i].quantity

\* C1: in every reachable state, a Purchase or Restock call takes no quantity
\* from >= 0 to below 0; a Purchase on the id of a product with quantity >= 1
\* succeeds (when its store is reached); a Purchase on the id of a product with
\* quantity <= 0 fails with 400 (404 when its store is not reached) and
\* decrements nothing.
C1_PurchaseNeverBelowZero ==
    /\ \A u \in AnyUser, id \in SweetIds, up1, up2 \in BOOLEAN :
         LET r == purchase_sweet(u, id, up1, up2) IN
         /\ NotBelowZero(r)
         /\ \A q \in QuantitiesAt(id) :
                /\ (q >= 1 /\ Served(id, up1, up2)) => r.status = 200
                /\ q <= 0 => (r.status \in {400, 404} /\ Untouched(r))
                /\ (q <= 0 /\ Served(id, up1, up2)) => r.status = 400
    /\ \A u \in AnyUser, id \in SweetIds, q \in Amounts, up \in BOOLEAN :
         NotBelowZero(restock_sweet(u, id, q, up))

\* C1 without its "first succeeds, second fails" half: no Purchase or Restock
\* call takes a quantity from >= 0 to below 0, and a Purchase that finds the
\* product it resolves to out of stock decrements nothing.
PurchaseKeepsNonNegative ==
    /\ \A u \in AnyUser, id \in SweetIds, up1, up2 \in BOOLEAN :
         LET r == purchase_sweet(u, id, up1, up2) IN
         NotBelowZero(r) /\ (r.status # 200 => Untouched(r))
    /\ \A u \in AnyUser, id \in SweetIds, q \in Amounts, up \in BOOLEAN :
         NotBelowZero(restock_sweet(u, id, q, up))

\* C2: under concurrent purchases no step takes a stored quantity from >= 0
\* to below 0 (so the purchases that report success never outnumber the
\* quantity that was available).
C2_PurchaseAtomic ==
    [][ /\ \A o \in DOMAIN sweets \cap DOMAIN sweets' :
              sweets[o].quantity >= 0 => sweets'[o].quantity >= 0
        /\ \A i \in DOMAIN fake_sweets \cap DOMAIN fake_sweets' :
              fake_sweets[i].quantity >= 0 => fake_sweets'[i].quantity >= 0
      ]_vars

\* C3: a Restock by an admin with amount <= 0 is answered 400 and leaves both
\* stores untouched; a Restock that succeeds lowers no quantity.
C3_RestockRejectsNonPositive ==
    \A u \in Admins, id \in SweetIds, q \in Amounts, up \in BOOLEAN :
        LET r == restock_sweet(u, id, q, up) IN
        /\ q <= 0 => (r.status = 400 /\ Untouched(r))
        /\ r.status = 200 => NotLowered(r)

C3_Witness ==
    /\ last = Response("restock", 400, "Quantity must be positive")
    /\ sweets # <<>>
    /\ fake_sweets # <<>>

\* C4: a Restock by an admin with amount > 0 on an id that no product has is
\* answered 404, whether or not the primary store is reachable.
C4_RestockMissingIsNotFound ==
    \A u \in Admins, id \in SweetIds, q \in Amounts, up \in BOOLEAN :
        (q > 0 /\ NoProduct(id)) => restock_sweet(u, id, q, up).status = 404

\* C5: a successful Restock(id, n) adds exactly n to, and a successful
\* Purchase(id) takes exactly 1 from, the quantity of every product with that
\* id and changes nothing else; an unsuccessful one changes nothing; a Purchase
\* succeeds while the quantity is >= 1 and fails with 400 once it is 0.
C5_QuantityLedger ==
    /\ \A u \in Admins, id \in SweetIds, n \in Amounts, up \in BOOLEAN :
         LET r == restock_sweet(u, id, n, up) IN
         IF r.status = 200 THEN QuantityMoved(r, id, n) ELSE Untouched(r)
    /\ \A u \in AnyUser, id \in SweetIds, up1, up2 \in BOOLEAN :
         LET r == purchase_sweet(u, id, up1, up2) IN
         /\ IF r.status = 200 THEN QuantityMoved(r, id, -1) ELSE Untouched(r)
         /\ \A q \in QuantitiesAt(id) :
                Served(id, up1, up2) => r.status = (IF q >= 1 THEN 200 ELSE 400)

\* No two products of the fallback store share an id.
FakeIdsUnique ==
    \A i, j \in DOMAIN fake_sweets : fake_sweets[i].id = fake_sweets[j].id => i = j

\* The statements of C1 and C5 in the states where the fallback ids are unique.
LedgerUnderUniqueIds ==
    FakeIdsUnique => (C1_PurchaseNeverBelowZero /\ C5_QuantityLedger)

\* C6: a Delete or Restock by a caller whose role is not "admin" (a token
\* without a role claim included) is answered 403 and leaves both stores
\* untouched, whatever the id and the amount.
C6_NonAdminForbidden ==
    \A u \in NonAdmins, id \in SweetIds, q \in Amounts, up \in BOOLEAN :
        /\ delete_sweet(u, id, up).status = 403
        /\ Untouched(delete_sweet(u, id, up))
        /\ restock_sweet(u, id, q, up).status = 403
        /\ Untouched(restock_sweet(u, id, q, up))

C6_Witness ==
    /\ last.status = 403
    /\ last.op \in {"delete", "restock"}
    /\ sweets # <<>>
    /\ fake_sweets # <<>>

\* --------------------------------------------------------- auth: claims
\* The user records of both credential stores, each with the store it is in.
Records ==
    {[store |-> "db", doc |-> users[i]] : i \in DOMAIN users}
        \cup {[store |-> "fake", doc |-> fake_users[i]] : i \in DOMAIN fake_users}

RecordsOf(email) == {x \in Records : x.doc.email = email}

Times == {now, now + 1, now + ACCESS_TOKEN_EXPIRE_MINUTES - 1}

\* C7: there is at most one user record per email across the two credential
\* stores, and a Register call for an email that has a record answers with that
\* record's email and id and leaves both stores as they are, whichever of its
\* store calls get through.
C7_RegisterIdempotent ==
    \A e \in Emails :
        /\ Cardinality(RecordsOf(e)) <= 1
        /\ \A x \in RecordsOf(e), d \in AuthRequest, salt \in Salts, up1, up2 \in BOOLEAN :
               d.email = e =>
                   LET r == register(d, salt, up1, up2) IN
                   /\ r.users = users
                   /\ r.fake_users = fake_users
                   /\ r.email = e
                   /\ r.id = x.doc._id

\* C8: for every user record that a Register call stored, a Login with its
\* email and its password is answered 200 with a token, whichever store holds
\* the record and however many users were registered before.
C8_LoginAfterRegister ==
    \A x \in Records, pw \in Passwords, up \in BOOLEAN :
        pwd_verify(pw, x.doc.hashed_password) =>
            LET r == login([email |-> x.doc.email, password |-> pw, admin_key |-> "None"], up) IN
            r.status = 200 /\ r.token # NoToken

\* What the client sees of a login.
Answer(r) == [status |-> r.status, detail |-> r.detail, email |-> r.email,
              role |-> r.role, token |-> r.token]

\* C9: in every reachable state, a Login with the email of a stored record and
\* a password that is not its password gets exactly the answer (401, the same
\* message, no token) that a Login with an email without a record gets.
C9_NoEnumeration ==
    \A d1, d2 \in AuthRequest, up1, up2 \in BOOLEAN :
        LET docs1 == IF up1 THEN users ELSE fake_users
            docs2 == IF up2 THEN users ELSE fake_users
            i == UserIndex(docs1, d1.email)
        IN  ( /\ i # 0
              /\ ~pwd_verify(d1.password, docs1[i].hashed_password)
              /\ UserIndex(docs2, d2.email) = 0 )
            => /\ Answer(login(d1, up1)) = Answer(login(d2, up2))
               /\ login(d1, up1).status = 401
               /\ login(d1, up1).token = NoToken

\* A login with a wrong password for an email that both stores hold has just
\* been answered 401, while the other email has no record.
C9_Witness ==
    /\ last.op = "login"
    /\ last.status = 401
    /\ UserIndex(users, last.email) # 0
    /\ UserIndex(fake_users, last.email) # 0
    /\ \E e \in Emails : RecordsOf(e) = {}

\* C10: a token that Login issues now validates, at any time up to its
\* expiration 1440 minutes later, to the email and the role of the record Login
\* found, and fails with 401 at any time after its expiration; and the token the
\* client holds validates exactly while the clock has not passed its expiration.
C10_TokenLifetime ==
    /\ \A d \in AuthRequest, up \in BOOLEAN :
         LET r == login(d, up)
             docs == IF up THEN users ELSE fake_users
         IN  r.status = 200 =>
                 /\ \A t \in Times \cup {now + ACCESS_TOKEN_EXPIRE_MINUTES} :
                        LET u == get_current_user(Bearer(r.token), t) IN
                        /\ u.ok
                        /\ u.payload.sub = d.email
                        /\ u.payload.role = docs[UserIndex(docs, d.email)].role
                 /\ \A t \in {now + ACCESS_TOKEN_EXPIRE_MINUTES + 1,
                              now + 2 * ACCESS_TOKEN_EXPIRE_MINUTES} :
                        LET u == get_current_user(Bearer(r.token), t) IN
                        ~u.ok /\ u.status = 401
    /\ held # NoToken =>
         LET u == get_current_user(Bearer(held), now) IN
         /\ u.ok <=> now <= held.payload.exp
         /\ ~u.ok => u.status = 401
         /\ u.ok => \E x \in Records :
                        u.payload.sub = x.doc.email /\ u.payload.role = x.doc.role

\* The held token has just been refused, a minute after its expiration.
C10_Witness ==
    /\ held # NoToken
    /\ last.op = "validate"
    /\ last.status = 401
    /\ now = held.payload.exp + 1

\* ------------------------------------------------- claims, second part
\* C11: the token validation that the catalog routes depend on answers 401 to
\* every header whose token has no subject claim, also when the token is
\* signed with the key and unexpired; so no catalog handler gets such a token's
\* claims as its current_user.
C11_SubjectRequired ==
    /\ \A h \in AuthedHeaders \cup BadHeaders :
           "sub" \notin DOMAIN h.token.payload =>
               /\ ~get_current_user(h, now).ok
               /\ get_current_user(h, now).status = 401
    /\ \A u \in Users(AuthedHeaders \cup BadHeaders) : "sub" \in DOMAIN u

\* The validation in routes.auth, which no route depends on, does refuse them.
SubjectRequiredByAuthRouter ==
    \A h \in AuthedHeaders :
        "sub" \notin DOMAIN h.token.payload =>
            ~oauth2_get_current_user(h.token, now).ok

\* seq is what it was in old, with at most one record appended.
Extends(seq, old) ==
    /\ Len(seq) \in {Len(old), Len(old) + 1}
    /\ \A i \in DOMAIN old : seq[i] = old[i]

\* The records of seq that old does not have.
Added(seq, old) == {seq[i] : i \in DOMAIN seq \ DOMAIN old}

\* C12: a Register call changes no stored user record and gives the record it
\* creates the role "admin" iff its admin_key is the configured key, else
\* "user"; a Login call changes no stored record; and a Login issues a token
\* with role "admin" for an email only if the first successful Register of
\* that email supplied the configured key.
C12_RoleFixedAtRegistration ==
    /\ \A d \in AuthRequest, salt \in Salts, up1, up2 \in BOOLEAN :
         LET r == register(d, salt, up1, up2) IN
         /\ Extends(r.users, users)
         /\ Extends(r.fake_users, fake_users)
         /\ \A x \in Added(r.users, users) \cup Added(r.fake_users, fake_users) :
                /\ x.email = d.email
                /\ x.role = (IF d.admin_key = ADMIN_KEY THEN "admin" ELSE "user")
    /\ \A d \in AuthRequest, up \in BOOLEAN :
         LET r == login(d, up) IN
         /\ r.users = users
         /\ r.fake_users = fake_users
         /\ (r.status = 200 /\ r.token.payload.role = "admin") =>
                (d.email \in DOMAIN first_role /\ first_role[d.email] = "admin")

\* C12 without its last part: Register and Login change no stored record, and
\* a new record's role is "admin" iff the call supplied the configured key.
RecordsNeverChange ==
    /\ \A d \in AuthRequest, salt \in Salts, up1, up2 \in BOOLEAN :
         LET r == register(d, salt, up1, up2) IN
         /\ Extends(r.users, users)
         /\ Extends(r.fake_users, fake_users)
         /\ \A x \in Added(r.users, users) \cup Added(r.fake_users, fake_users) :
                x.role = (IF d.admin_key = ADMIN_KEY THEN "admin" ELSE "user")
    /\ \A d \in AuthRequest, up \in BOOLEAN :
         login(d, up).users = users /\ login(d, up).fake_users = fake_users

\* The statement of C12 in the states that hold one record per email.
RoleFixedUnderOneRecord ==
    (\A e \in Emails : Cardinality(RecordsOf(e)) <= 1) => C12_RoleFixedAtRegistration

\* The names of the live products of the primary and of the fallback store.
NamesIn(up) ==
    IF up THEN {sweets[o].name : o \in DOMAIN sweets}
    ELSE {fake_sweets[i].name : i \in DOMAIN fake_sweets}

\* No two live products of a store have the same name.
NamesUnique ==
    /\ \A o1, o2 \in DOMAIN sweets : sweets[o1].name = sweets[o2].name => o1 = o2
    /\ \A i, j \in DOMAIN fake_sweets :
           fake_sweets[i].name = fake_sweets[j].name => i = j

\* C13: an Add whose name is the name of a live product is answered 400 and
\* stores nothing, and in every reachable state (after any sequence of Add,
\* Update, Delete, Purchase and Restock) no two live products of a store have
\* the same name.
C13_NameIsKey ==
    /\ NamesUnique
    /\ \A u \in AnyUser, s \in Sweet, up1, up2 \in BOOLEAN :
           s.name \in NamesIn(TRUE) \cup NamesIn(FALSE) =>
               /\ add_sweet(u, s, up1, up2).status = 400
               /\ Untouched(add_sweet(u, s, up1, up2))

\* C13 for Add alone, with the store reachable or unreachable for the whole
\* call: an Add whose name is taken in the store it uses is answered 400 and
\* stores nothing, and an Add that is accepted leaves the names of that store
\* distinct if they were.
AddRejectsTakenName ==
    \A u \in AnyUser, s \in Sweet, up \in BOOLEAN :
        LET r == add_sweet(u, s, up, up) IN
        /\ s.name \in NamesIn(up) => (r.status = 400 /\ Untouched(r))
        /\ (NamesUnique /\ r.status = 201) =>
               /\ \A o1, o2 \in DOMAIN r.sweets :
                      r.sweets[o1].name = r.sweets[o2].name => o1 = o2
               /\ \A i, j \in DOMAIN r.fake_sweets :
                      r.fake_sweets[i].name = r.fake_sweets[j].name => i = j

\* What a search is asked to return: the products that pass every filter that
\* was supplied, a supplied bound of 0 included.
Satisfies(d, name, category, min_price, max_price) ==
    /\ (name # "") => IsIn(Lower(name), Lower(d.name))
    /\ (category # "") => d.category = category
    /\ min_price.some => d.price >= min_price.v
    /\ max_price.some => d.price <= max_price.v

\* C14: in the primary store and in the fallback store alike, Search returns
\* exactly the stored products that pass every supplied filter (category
\* equal, price >= min_price, price <= max_price, a bound of 0 counting as
\* supplied), and with no filter it returns what List returns.
C14_SearchExact ==
    \A up \in BOOLEAN :
        /\ \A name \in SearchNames, category \in SearchCategories,
              min_price \in MinPrices, max_price \in MaxPrices :
               search_sweets(name, category, min_price, max_price, up)
                   = {d \in list_sweets(up) :
                          Satisfies(d, name, category, min_price, max_price)}
        /\ search_sweets("", "", None, None, up) = list_sweets(up)

\* C14 for the fallback store, and for the primary store when no bound is 0.
SearchExactButForZero ==
    \A up \in BOOLEAN, name \in SearchNames, category \in SearchCategories,
       min_price \in MinPrices, max_price \in MaxPrices :
        (up => (min_price # Some(0) /\ max_price # Some(0))) =>
            search_sweets(name, category, min_price, max_price, up)
                = {d \in list_sweets(up) :
                       Satisfies(d, name, category, min_price, max_price)}

\* The product with this id is in neither List nor any Search.
Absent(sweet_id) ==
    \A up \in BOOLEAN :
        /\ \A d \in list_sweets(up) : d.id # sweet_id
        /\ \A name \in SearchNames, category \in SearchCategories,
              min_price \in MinPrices, max_price \in MaxPrices :
               \A d \in search_sweets(name, category, min_price, max_price, up) :
                   d.id # sweet_id

\* C15: once a Delete(id) by an admin has been answered with success, whatever
\* Adds, Updates, Deletes and Purchases follow, the id is in neither List nor
\* Search, and every Update, Purchase or Delete on it is answered 404.
C15_DeletedStaysDeleted ==
    \A id \in deleted :
        /\ Absent(id)
        /\ \A u \in Admins, s \in Sweet, up1, up2 \in BOOLEAN :
               /\ update_sweet(u, id, s, up1).status = 404
               /\ purchase_sweet(u, id, up1, up2).status = 404
               /\ delete_sweet(u, id, up1).status = 404

\* C15 for the call itself: a Delete by an admin that is answered with success
\* leaves no product with that id in either store.
DeleteRemoves ==
    \A u \in Admins, id \in SweetIds, up \in BOOLEAN :
        LET r == delete_sweet(u, id, up) IN
        r.status = 200 =>
            /\ id \notin DOMAIN r.sweets
            /\ \A i \in DOMAIN r.fake_sweets : r.fake_sweets[i].id # id

\* C15 for the ids of the primary store, which are never handed out twice.
DeletedObjectIdStaysDeleted ==
    \A id \in deleted :
        ObjectIdIsValid(id) =>
            /\ Absent(id)
            /\ \A u \in Admins, s \in Sweet, up1, up2 \in BOOLEAN :
                   /\ update_sweet(u, id, s, up1).status = 404
                   /\ purchase_sweet(u, id, up1, up2).status = 404
                   /\ delete_sweet(u, id, up1).status = 404

\* A document of the first run, with its id renamed to the second run's.
Renamed(d) == [d EXCEPT !.id = Twin(d.id)]

\* The two runs hold the same records up to the renaming of ids.
SameRecords == {Renamed(d) : d \in PrimaryDocs} = FakeDocs /\ Cardinality(PrimaryDocs) = Len(fake_sweets)

\* C16: given the same calls, the run with the primary store always reachable
\* and the run with it always unreachable hold the same records up to a
\* renaming of ids, and every next call gets the same status in both and, for
\* List and Search, the same records.
C16_StoresEquivalent ==
    /\ SameRecords
    /\ \A u \in AnyUser, s \in Sweet :
           add_sweet(u, s, TRUE, TRUE).status = add_sweet(u, s, FALSE, FALSE).status
    /\ \A u \in AnyUser, t \in Targets, s \in Sweet, q \in Amounts :
           /\ update_sweet(u, t, s, TRUE).status = update_sweet(u, Twin(t), s, FALSE).status
           /\ delete_sweet(u, t, TRUE).status = delete_sweet(u, Twin(t), FALSE).status
           /\ purchase_sweet(u, t, TRUE, TRUE).status
                  = purchase_sweet(u, Twin(t), FALSE, FALSE).status
           /\ restock_sweet(u, t, q, TRUE).status = restock_sweet(u, Twin(t), q, FALSE).status
    /\ {Renamed(d) : d \in list_sweets(TRUE)} = list_sweets(FALSE)
    /\ \A name \in SearchNames, category \in SearchCategories,
          min_price \in MinPrices, max_price \in MaxPrices :
           {Renamed(d) : d \in search_sweets(name, category, min_price, max_price, TRUE)}
               = search_sweets(name, category, min_price, max_price, FALSE)

\* C17: an Update is answered 404 when no live product has the id (a malformed
\* id included), and 200 when a live product has it and its store is reached,
\* also when the new data equal the product's current data (as they do when
\* the same Update is applied a second time).
C17_UpdateNotFoundExactly ==
    \A u \in AnyUser, id \in SweetIds, s \in Sweet, up \in BOOLEAN :
        LET r == update_sweet(u, id, s, up) IN
        /\ NoProduct(id) => r.status = 404
        /\ (~NoProduct(id) /\ Served(id, up, up)) => r.status = 200

\* C17 for every Update but one whose data equal the current data of a product
\* of the primary store.
UpdateNotFoundUnlessUnchanged ==
    \A u \in AnyUser, id \in SweetIds, s \in Sweet, up \in BOOLEAN :
        LET r == update_sweet(u, id, s, up) IN
        /\ NoProduct(id) => r.status = 404
        /\ ( /\ ~NoProduct(id)
             /\ Served(id, up, up)
             /\ id \in DOMAIN sweets => sweets[id] # s ) => r.status = 200

\* The positions of the fallback store whose product the outcome r changed.
Changed(r) ==
    {i \in DOMAIN fake_sweets \cap DOMAIN r.fake_sweets : r.fake_sweets[i] # fake_sweets[i]}

\* The outcome r has left every product of the fallback store its id.
IdsKept(r) ==
    /\ Len(r.fake_sweets) = Len(fake_sweets)
    /\ \A i \in DOMAIN fake_sweets : r.fake_sweets[i].id = fake_sweets[i].id

\* C18: in every reachable state no two live products of the fallback store
\* have the same id; an Update, Purchase or Restock leaves every product its
\* id and changes at most one product; a Delete removes at most one product.
C18_FallbackIdsUnique ==
    /\ \A i, j \in DOMAIN fake_sweets : fake_sweets[i].id = fake_sweets[j].id => i = j
    /\ \A u \in Admins, id \in SweetIds, s \in Sweet, q \in Amounts :
           /\ IdsKept(update_sweet(u, id, s, FALSE))
           /\ Cardinality(Changed(update_sweet(u, id, s, FALSE))) <= 1
           /\ IdsKept(purchase_sweet(u, id, FALSE, FALSE))
           /\ Cardinality(Changed(purchase_sweet(u, id, FALSE, FALSE))) <= 1
           /\ IdsKept(restock_sweet(u, id, q, FALSE))
           /\ Cardinality(Changed(restock_sweet(u, id, q, FALSE))) <= 1
           /\ Len(delete_sweet(u, id, FALSE).fake_sweets) >= Len(fake_sweets) - 1

\* C18 without the uniqueness: no call changes the id of a product, and an
\* Update, Purchase or Restock changes at most one product.
FallbackIdsKept ==
    \A u \in Admins, id \in SweetIds, s \in Sweet, q \in Amounts :
        /\ IdsKept(update_sweet(u, id, s, FALSE))
        /\ Cardinality(Changed(update_sweet(u, id, s, FALSE))) <= 1
        /\ IdsKept(purchase_sweet(u, id, FALSE, FALSE))
        /\ Cardinality(Changed(purchase_sweet(u, id, FALSE, FALSE))) <= 1
        /\ IdsKept(restock_sweet(u, id, q, FALSE))
        /\ Cardinality(Changed(restock_sweet(u, id, q, FALSE))) <= 1

====
